---- MODULE Spec2Model ----
(***************************************************************************)
(* Seat allocation and booking confirmation of the Haramain bus booking    *)
(* platform: the request handlers POST /api/bookings and                   *)
(* POST /api/confirm-payment (server/routes.ts) over DatabaseStorage       *)
(* (server/storage.ts) and the bookings / booked_seats tables              *)
(* (shared/schema.ts).                                                     *)
(*                                                                         *)
(* Every `await` of a handler is a scheduling point: the steps of          *)
(* different requests interleave freely, each database statement is one    *)
(* atomic step.                                                            *)
(***************************************************************************)
EXTENDS Integers, Sequences, FiniteSets, TLC

\* ------------------------------------------------------------------ bounds
\* number of requests a behaviour contains
MaxReq == 2

NULL == "null"

Procs == 1..MaxReq

\* ---------------------------------------------------------- reference data
\* authenticated principals (req.user.claims.sub)
UserIds == {"u1", "u2"}

\* the length of a day in units of time: a timestamp counts half days
TicksPerDay == 2

\* trips joined with their route and their bus: t1 runs a two-seat bus and
\* leaves at noon of day 1, t2 a one-seat bus and leaves at 00:00 of day 2,
\* t3 has left
Trips ==
  [t1 |-> [capacity |-> 2, status |-> "scheduled", price |-> 100,
           originCity |-> "Makkah", destinationCity |-> "Madinah",
           departureTime |-> 1 * TicksPerDay + 1],
   t2 |-> [capacity |-> 1, status |-> "scheduled", price |-> 100,
           originCity |-> "Makkah", destinationCity |-> "Madinah",
           departureTime |-> 2 * TicksPerDay],
   t3 |-> [capacity |-> 1, status |-> "departed", price |-> 100,
           originCity |-> "Makkah", destinationCity |-> "Madinah",
           departureTime |-> 1 * TicksPerDay + 1]]

TripIds == DOMAIN Trips

\* a well-formed uuid that names no row of trips
NoSuchTrip == "t9"

\* payment intents held by Stripe: status and the metadata written by
\* POST /api/create-payment-intent
StripeIntents ==
  [pi_ok   |-> [status |-> "succeeded", bookingId |-> 1, userId |-> "u1"],
   pi_fail |-> [status |-> "requires_payment_method", bookingId |-> 1, userId |-> "u1"]]

IntentIds == DOMAIN StripeIntents

\* `HRM-YYYYMMDD-XXXXXX`: the six characters come from randomUUID(), two
\* calls may draw the same ones
GeneratedRefs == {"HRM-20250823-AAAAAA", "HRM-20250823-BBBBBB"}

\* ------------------------------------------------------------ request data
Seat(n, name) == [seatNumber |-> n, passengerName |-> name]

BookingFields == {"tripId", "totalAmount", "discountAmount", "finalAmount",
                  "bookingReference", "selectedSeats"}

\* a JSON document posted to /api/bookings: `fields` are the keys present in it
Body(f, t, s) ==
  [fields |-> f, tripId |-> t, totalAmount |-> 110, discountAmount |-> 0,
   finalAmount |-> 110, bookingReference |-> "x", selectedSeats |-> s,
   userId |-> NULL, status |-> NULL]

\* the documents the requests of a behaviour are drawn from
BookingBodies ==
  { Body(BookingFields, "t1", <<Seat("A1", "Passenger")>>),
    Body(BookingFields, "t1", <<Seat("A1", "Passenger"), Seat("A2", "Passenger")>>),
    Body(BookingFields, "t2", <<Seat("A1", "Passenger")>>),
    Body(BookingFields \ {"selectedSeats"}, "t1", <<>>),
    Body(BookingFields \ {"bookingReference"}, "t1", <<Seat("A1", "Passenger")>>),
    Body(BookingFields, NoSuchTrip, <<Seat("A1", "Passenger")>>) }

NoBody ==
  [fields |-> {}, tripId |-> NULL, totalAmount |-> 0, discountAmount |-> 0,
   finalAmount |-> 0, bookingReference |-> NULL, selectedSeats |-> <<>>,
   userId |-> NULL, status |-> NULL]

VARIABLES
  bookings,     \* table bookings, in insertion order; a row's id is its index
  bookedSeats,  \* table booked_seats, in insertion order
  kind,         \* kind[p]: the handler request p runs ("none" before it arrives)
  pc,           \* pc[p]: the await request p is suspended at
  caller,       \* caller[p]: req.user.claims.sub
  body,         \* body[p]: req.body of a POST /api/bookings
  local,        \* local[p]: the handler's local variables
  response,     \* response[p]: what res.json sent
  arrival,      \* arrival[p]: what request p found when it arrived (history)
  client        \* the state of the SeatSelection component of a browser

vars == <<bookings, bookedSeats, kind, pc, caller, body, local, response, arrival,
          client>>

NoArrival == [inflight |-> {}, taken |-> {}]

\* no SeatSelection component is mounted
NoClient ==
  [trip |-> NULL, bookedSeats |-> <<>>, selectedSeats |-> <<>>, discount |-> 0,
   promotion |-> NULL, bookingData |-> NoBody]

\* no row of bookings
NoBooking ==
  [id |-> 0, bookingReference |-> NULL, userId |-> NULL, tripId |-> NULL,
   totalAmount |-> 0, discountAmount |-> 0, finalAmount |-> 0, status |-> NULL,
   paymentGatewayId |-> NULL, paymentMethod |-> NULL]

NoLocal ==
  [bookingReference |-> NULL, bookingId |-> 0, paymentIntentId |-> NULL,
   bookingResult |-> NoBooking, error |-> NULL,
   promoCode |-> NULL, now |-> 0, params |-> <<>>, tripsWithDetails |-> {},
   tripsWithAvailability |-> {}]

\* a response document: HTTP status, `message`, the booking it carries with
\* its bookedSeats, and the seat numbers an error names
NoResponse ==
  [status |-> 0, message |-> NULL, booking |-> NoBooking, bookedSeats |-> <<>>,
   seats |-> {}, promotion |-> NULL, trips |-> {}, userBookings |-> <<>>]

Init ==
  /\ bookings = <<>>
  /\ bookedSeats = <<>>
  /\ kind = [p \in Procs |-> "none"]
  /\ pc = [p \in Procs |-> "idle"]
  /\ caller = [p \in Procs |-> NULL]
  /\ body = [p \in Procs |-> NoBody]
  /\ local = [p \in Procs |-> NoLocal]
  /\ response = [p \in Procs |-> NoResponse]
  /\ arrival = [p \in Procs |-> NoArrival]
  /\ client = NoClient

\* ------------------------------------------------------------ storage reads
Range(f) == {f[i] : i \in DOMAIN f}

\* db.select().from(bookedSeats).where(eq(bookedSeats.tripId, tripId))
getTripSeats(tripId) == SelectSeq(bookedSeats, LAMBDA r : r.tripId = tripId)

\* db.select().from(bookedSeats).where(eq(bookedSeats.bookingId, bookingId))
SeatsOfBooking(bookingId) == SelectSeq(bookedSeats, LAMBDA r : r.bookingId = bookingId)

\* the first select without the owner in its where clause
BookingOfAnyOwner(bookingId, userId) ==
  IF bookingId \in DOMAIN bookings THEN bookings[bookingId] ELSE NoBooking

\* the first select of getBookingById: the row with that id and that owner
BookingOf(bookingId, userId) ==
  IF bookingId \in DOMAIN bookings /\ bookings[bookingId].userId = userId
  THEN bookings[bookingId] ELSE NoBooking

\* getBookingById read in one snapshot: null, or the booking with its seats
getBookingById(bookingId, userId) ==
  IF BookingOf(bookingId, userId) = NoBooking
  THEN [booking |-> NoBooking, bookedSeats |-> <<>>]
  ELSE [booking |-> BookingOf(bookingId, userId),
        bookedSeats |-> SeatsOfBooking(bookingId)]

\* availableSeats of searchTrips: bus.capacity - count(booked_seats of the trip)
availableSeats(tripId) == Trips[tripId].capacity - Len(getTripSeats(tripId))

\* the seat numbers of a trip held by a booking that is pending or confirmed
ActiveHolders(tripId, seatNumber) ==
  { r.bookingId : r \in { x \in Range(bookedSeats) :
        /\ x.tripId = tripId
        /\ x.seatNumber = seatNumber
        /\ bookings[x.bookingId].status \in {"pending", "confirmed"} } }

SeatNumbersOf(seats) == { seats[i].seatNumber : i \in DOMAIN seats }

\* --------------------------------------------------------------- arrivals
InFlight == { q \in Procs : kind[q] # "none" /\ pc[q] # "done" }

\* requests are numbered in the order they arrive
MayArrive(p) ==
  /\ kind[p] = "none"
  /\ \A q \in Procs : q < p => kind[q] # "none"

Reply(p, r) ==
  /\ response' = [response EXCEPT ![p] = r]
  /\ pc' = [pc EXCEPT ![p] = "done"]

\* the catch block of a handler: `error` is what was thrown, r what it answers
Catch(p, error, r) ==
  /\ local' = [local EXCEPT ![p].error = error]
  /\ Reply(p, r)

\* ------------------------------------------------------ POST /api/bookings
\* insertBookingSchema = createInsertSchema(bookings).omit({id, createdAt})
\* applied to {...req.body, userId}: the columns that are notNull and have no
\* default must be present
ZodAccepts(b) ==
  {"bookingReference", "tripId", "totalAmount", "finalAmount"} \subseteq b.fields

\* the handler up to its first await: parse, then createBooking issues the
\* insert into bookings
PostBooking(p, u, b) ==
  /\ MayArrive(p)
  /\ kind' = [kind EXCEPT ![p] = "booking"]
  /\ caller' = [caller EXCEPT ![p] = u]
  /\ body' = [body EXCEPT ![p] = b]
  /\ arrival' = [arrival EXCEPT ![p] =
        [inflight |-> InFlight,
         taken |-> IF b.tripId \in TripIds
                   THEN { n \in SeatNumbersOf(b.selectedSeats) :
                            ActiveHolders(b.tripId, n) # {} }
                   ELSE {}]]
  /\ IF ZodAccepts(b)
     THEN /\ pc' = [pc EXCEPT ![p] = "insertBooking"]
          /\ UNCHANGED <<response, local>>
     ELSE Catch(p, "ZodError", [NoResponse EXCEPT !.status = 400,
                                  !.message = "Invalid booking data"])
  /\ UNCHANGED <<bookings, bookedSeats, client>>

FailedToCreate == [NoResponse EXCEPT !.status = 500, !.message = "Failed to create booking"]

\* the row of an insert whose spreads let the keys of the document win:
\* {userId, ...req.body} and {bookingReference, status, ...bookingData}
NewBookingFromBody(p, bookingReference) ==
  [id |-> Len(bookings) + 1,
   bookingReference |-> IF "bookingReference" \in body[p].fields
                        THEN body[p].bookingReference ELSE bookingReference,
   userId |-> IF "userId" \in body[p].fields THEN body[p].userId ELSE caller[p],
   tripId |-> body[p].tripId,
   totalAmount |-> body[p].totalAmount,
   discountAmount |-> IF "discountAmount" \in body[p].fields
                      THEN body[p].discountAmount ELSE 0,
   finalAmount |-> body[p].finalAmount,
   status |-> IF "status" \in body[p].fields THEN body[p].status ELSE "confirmed",
   paymentGatewayId |-> NULL,
   paymentMethod |-> NULL]

\* the row db.insert(bookings).values({...bookingData, bookingReference,
\* status: 'confirmed'}) writes, bookingData being the parsed
\* {...req.body, userId}: the caller, the generated reference and 'confirmed'
\* replace what the document carries under these keys; the columns the document has no key for keep
\* their default
NewBooking(p, bookingReference) ==
  [id |-> Len(bookings) + 1,
   bookingReference |-> bookingReference,
   userId |-> caller[p],
   tripId |-> body[p].tripId,
   totalAmount |-> body[p].totalAmount,
   discountAmount |-> IF "discountAmount" \in body[p].fields
                      THEN body[p].discountAmount ELSE 0,
   finalAmount |-> body[p].finalAmount,
   status |-> "confirmed",
   paymentGatewayId |-> NULL,
   paymentMethod |-> NULL]

\* table bookings without the unique constraint on booking_reference
BookingConstraintsHoldNoUnique(row) == row.tripId \in TripIds

\* the constraints of table bookings: trip_id references trips, and
\* booking_reference is unique
BookingConstraintsHold(row) ==
  /\ row.tripId \in TripIds
  /\ \A i \in DOMAIN bookings : bookings[i].bookingReference # row.bookingReference

\* const bookingReference = `HRM-...`; await db.insert(bookings)...returning()
\* The reference is drawn before the await, but nothing reads it until the
\* insert executes: the draw is taken in the step of the insert.
InsertBooking(p) ==
  /\ kind[p] = "booking" /\ pc[p] = "insertBooking"
  /\ \E ref \in GeneratedRefs :
       IF BookingConstraintsHold(NewBooking(p, ref))
       THEN /\ bookings' = Append(bookings, NewBooking(p, ref))
            /\ local' = [local EXCEPT ![p].bookingReference = ref,
                                      ![p].bookingResult = NewBooking(p, ref)]
            /\ pc' = [pc EXCEPT ![p] = "insertSeats"]
            /\ UNCHANGED response
       ELSE /\ Catch(p, IF NewBooking(p, ref).tripId \in TripIds
                          THEN "unique_violation" ELSE "foreign_key_violation",
                       FailedToCreate)
            /\ UNCHANGED bookings
  /\ UNCHANGED <<bookedSeats, kind, caller, body, arrival, client>>

\* the rows of an insert that keeps the first selected seat only
NewSeatsFirstOnly(p) ==
  [i \in {1} |->
     [bookingId |-> local[p].bookingResult.id,
      tripId |-> body[p].tripId,
      seatNumber |-> body[p].selectedSeats[1].seatNumber,
      passengerName |-> body[p].selectedSeats[1].passengerName]]

\* the rows of an insert that takes trip_id from the first row of bookings
NewSeatsOfFirstBooking(p) ==
  [i \in DOMAIN body[p].selectedSeats |->
     [bookingId |-> local[p].bookingResult.id,
      tripId |-> bookings[1].tripId,
      seatNumber |-> body[p].selectedSeats[i].seatNumber,
      passengerName |-> body[p].selectedSeats[i].passengerName]]

\* the rows selectedSeats.map(...) builds for booked_seats
NewSeats(p) ==
  [i \in DOMAIN body[p].selectedSeats |->
     [bookingId |-> local[p].bookingResult.id,
      tripId |-> body[p].tripId,
      seatNumber |-> body[p].selectedSeats[i].seatNumber,
      passengerName |-> body[p].selectedSeats[i].passengerName]]

\* booked_seats under a constraint that admits one booking per trip
SeatConstraintsHoldOnePerTrip(rows) ==
  \A i \in DOMAIN rows :
    /\ rows[i].seatNumber # NULL
    /\ \A j \in DOMAIN bookedSeats : bookedSeats[j].tripId # rows[i].tripId

\* seat_number is notNull; nothing else constrains booked_seats
SeatConstraintsHold(rows) == \A i \in DOMAIN rows : rows[i].seatNumber # NULL

\* if (selectedSeats.length > 0) await db.insert(bookedSeats).values(...);
\* return booking, then res.json(booking)
InsertSeats(p) ==
  /\ kind[p] = "booking" /\ pc[p] = "insertSeats"
  /\ IF "selectedSeats" \notin body[p].fields
     THEN \* req.body.selectedSeats is undefined: reading .length throws
          Catch(p, "TypeError", FailedToCreate) /\ UNCHANGED bookedSeats
     ELSE IF Len(body[p].selectedSeats) = 0
     THEN /\ Reply(p, [NoResponse EXCEPT !.status = 200,
                                         !.booking = local[p].bookingResult])
          /\ UNCHANGED <<bookedSeats, local>>
     ELSE IF SeatConstraintsHold(NewSeats(p))
     THEN /\ bookedSeats' = bookedSeats \o NewSeats(p)
          /\ Reply(p, [NoResponse EXCEPT !.status = 200,
                                         !.booking = local[p].bookingResult])
          /\ UNCHANGED local
     ELSE Catch(p, "not_null_violation", FailedToCreate) /\ UNCHANGED bookedSeats
  /\ UNCHANGED <<bookings, kind, caller, body, arrival, client>>

\* a statement the database fails to execute (connection lost, timeout): the
\* insert throws and the handler answers 500
StorageFault(p) ==
  /\ kind[p] = "booking"
  /\ \/ pc[p] = "insertBooking"
     \/ pc[p] = "insertSeats" /\ "selectedSeats" \in body[p].fields
                              /\ Len(body[p].selectedSeats) > 0
  /\ Catch(p, "connection_error", FailedToCreate)
  /\ UNCHANGED <<bookings, bookedSeats, kind, caller, body, arrival, client>>

\* ------------------------------------------------ POST /api/confirm-payment
\* the handler up to its first await: stripe.paymentIntents.retrieve is issued
PostConfirmPayment(p, u, paymentIntentId, bookingId) ==
  /\ MayArrive(p)
  /\ kind' = [kind EXCEPT ![p] = "confirm"]
  /\ caller' = [caller EXCEPT ![p] = u]
  /\ local' = [local EXCEPT ![p].paymentIntentId = paymentIntentId,
                            ![p].bookingId = bookingId]
  /\ arrival' = [arrival EXCEPT ![p] = [inflight |-> InFlight, taken |-> {}]]
  /\ pc' = [pc EXCEPT ![p] = "retrieve"]
  /\ UNCHANGED <<bookings, bookedSeats, body, response, client>>

\* the handler calling confirmBookingPayment whatever the intent's status
RetrieveIntentAnyStatus(p) ==
  /\ kind[p] = "confirm" /\ pc[p] = "retrieve"
  /\ pc' = [pc EXCEPT ![p] = "update"]
  /\ UNCHANGED <<bookings, bookedSeats, kind, caller, body, local, response,
                 arrival, client>>

\* paymentIntent = await stripe.paymentIntents.retrieve(paymentIntentId);
\* if (paymentIntent.status === 'succeeded') confirmBookingPayment is called
RetrieveIntent(p) ==
  /\ kind[p] = "confirm" /\ pc[p] = "retrieve"
  /\ IF local[p].paymentIntentId \notin IntentIds
     THEN Catch(p, "No such payment_intent", [NoResponse EXCEPT !.status = 500,
                      !.message = "Error confirming payment: No such payment_intent"])
     ELSE IF StripeIntents[local[p].paymentIntentId].status = "succeeded"
     THEN pc' = [pc EXCEPT ![p] = "update"] /\ UNCHANGED <<response, local>>
     ELSE /\ Reply(p, [NoResponse EXCEPT !.status = 400,
                         !.message = "Payment not successful"])
          /\ UNCHANGED local
  /\ UNCHANGED <<bookings, bookedSeats, kind, caller, body, arrival, client>>

\* the update with the owner test dropped from its where clause
ConfirmMatchesAnyOwner(bookingId, userId) == bookingId \in DOMAIN bookings

\* the rows the update of confirmBookingPayment matches:
\* where(and(eq(bookings.id, bookingId), eq(bookings.userId, userId)))
ConfirmMatches(bookingId, userId) ==
  bookingId \in DOMAIN bookings /\ bookings[bookingId].userId = userId

\* the update also overwriting the booking reference with the payment's
ConfirmedOverwritingReference(row, paymentGatewayId) ==
  [row EXCEPT !.status = "confirmed",
              !.paymentGatewayId = paymentGatewayId,
              !.paymentMethod = "stripe",
              !.bookingReference = paymentGatewayId]

\* the update replacing the row by a row under another id
ConfirmedUnderNewId(row, paymentGatewayId) ==
  [row EXCEPT !.id = 0,
              !.status = "confirmed",
              !.paymentGatewayId = paymentGatewayId,
              !.paymentMethod = "stripe"]

\* the update writing status 'cancelled'
ConfirmedAsCancelled(row, paymentGatewayId) ==
  [row EXCEPT !.status = "cancelled",
              !.paymentGatewayId = paymentGatewayId,
              !.paymentMethod = "stripe"]

\* .set({status: 'confirmed', paymentGatewayId, paymentMethod: 'stripe'})
Confirmed(row, paymentGatewayId) ==
  [row EXCEPT !.status = "confirmed",
              !.paymentGatewayId = paymentGatewayId,
              !.paymentMethod = "stripe"]

\* await db.update(bookings)...returning(); no row: throw
UpdateBooking(p) ==
  /\ kind[p] = "confirm" /\ pc[p] = "update"
  /\ IF ConfirmMatches(local[p].bookingId, caller[p])
     THEN /\ bookings' = [bookings EXCEPT ![local[p].bookingId] =
                             Confirmed(@, local[p].paymentIntentId)]
          /\ pc' = [pc EXCEPT ![p] = "fetchBooking"]
          /\ UNCHANGED <<response, local>>
     ELSE /\ Catch(p, "Booking not found or access denied",
             [NoResponse EXCEPT !.status = 500,
                !.message = "Error confirming payment: Booking not found or access denied"])
          /\ UNCHANGED bookings
  /\ UNCHANGED <<bookedSeats, kind, caller, body, arrival, client>>

\* getBookingById, first select; an empty result returns null at once
FetchBooking(p) ==
  /\ kind[p] = "confirm" /\ pc[p] = "fetchBooking"
  /\ IF BookingOf(local[p].bookingId, caller[p]) = NoBooking
     THEN Reply(p, [NoResponse EXCEPT !.status = 200]) /\ UNCHANGED local
     ELSE /\ local' = [local EXCEPT ![p].bookingResult =
                          BookingOf(local[p].bookingId, caller[p])]
          /\ pc' = [pc EXCEPT ![p] = "fetchSeats"]
          /\ UNCHANGED response
  /\ UNCHANGED <<bookings, bookedSeats, kind, caller, body, arrival, client>>

\* getBookingById, second select; res.json({success: true, booking})
FetchSeats(p) ==
  /\ kind[p] = "confirm" /\ pc[p] = "fetchSeats"
  /\ Reply(p, [NoResponse EXCEPT !.status = 200,
                                 !.booking = local[p].bookingResult,
                                 !.bookedSeats = SeatsOfBooking(local[p].bookingId)])
  /\ UNCHANGED <<bookings, bookedSeats, kind, caller, body, local, arrival, client>>

\* ------------------------------------------------------------ specification
Next ==
  \/ \E p \in Procs, u \in UserIds, b \in BookingBodies : PostBooking(p, u, b)
  \/ \E p \in Procs : InsertBooking(p)
  \/ \E p \in Procs : InsertSeats(p)
  \/ \E p \in Procs : StorageFault(p)
  \/ \E p \in Procs, u \in UserIds, i \in IntentIds,
        id \in 1..MaxReq : PostConfirmPayment(p, u, i, id)
  \/ \E p \in Procs : RetrieveIntent(p)
  \/ \E p \in Procs : UpdateBooking(p)
  \/ \E p \in Procs : FetchBooking(p)
  \/ \E p \in Procs : FetchSeats(p)

Spec == Init /\ [][Next]_vars

\* ------------------------------------- a database that already holds a booking
\* the booking and the seat a POST /api/bookings of user u1 for seat A1 of
\* trip t2 left in the tables the day before (its reference carries that date)
SeedBooking ==
  [id |-> 1, bookingReference |-> "HRM-20250822-CCCCCC", userId |-> "u1",
   tripId |-> "t2", totalAmount |-> 110, discountAmount |-> 0,
   finalAmount |-> 110, status |-> "confirmed",
   paymentGatewayId |-> NULL, paymentMethod |-> NULL]

SeedSeat ==
  [bookingId |-> 1, tripId |-> "t2", seatNumber |-> "A1",
   passengerName |-> "Passenger"]

\* requests for the two seats of trip t1, one seat each
SeededBodies ==
  { Body(BookingFields, "t1", <<Seat("A1", "Passenger")>>),
    Body(BookingFields, "t1", <<Seat("A2", "Passenger")>>) }

InitSeeded ==
  /\ bookings = <<SeedBooking>>
  /\ bookedSeats = <<SeedSeat>>
  /\ kind = [p \in Procs |-> "none"]
  /\ pc = [p \in Procs |-> "idle"]
  /\ caller = [p \in Procs |-> NULL]
  /\ body = [p \in Procs |-> NoBody]
  /\ local = [p \in Procs |-> NoLocal]
  /\ response = [p \in Procs |-> NoResponse]
  /\ arrival = [p \in Procs |-> NoArrival]
  /\ client = NoClient

NextSeeded ==
  \/ \E p \in Procs, u \in UserIds, b \in SeededBodies : PostBooking(p, u, b)
  \/ \E p \in Procs : InsertBooking(p)
  \/ \E p \in Procs : InsertSeats(p)
  \/ \E p \in Procs : StorageFault(p)
  \/ \E p \in Procs, u \in UserIds, i \in IntentIds,
        id \in 1..(MaxReq + 1) : PostConfirmPayment(p, u, i, id)
  \/ \E p \in Procs : RetrieveIntent(p)
  \/ \E p \in Procs : UpdateBooking(p)
  \/ \E p \in Procs : FetchBooking(p)
  \/ \E p \in Procs : FetchSeats(p)

SpecSeeded == InitSeeded /\ [][NextSeeded]_vars

\* ------------------------------------------------ a request to cancel a booking
\* registerRoutes registers no route that cancels a booking and IStorage has
\* no operation that would: whatever path the request names, no handler of
\* the program runs and no table is written. The answer is left to the
\* middleware mounted after the routes (a 404, or the page of the client
\* served with 200).
PostCancelBooking(p, u, bookingId) ==
  /\ MayArrive(p)
  /\ kind' = [kind EXCEPT ![p] = "cancel"]
  /\ caller' = [caller EXCEPT ![p] = u]
  /\ local' = [local EXCEPT ![p].bookingId = bookingId]
  /\ arrival' = [arrival EXCEPT ![p] = [inflight |-> InFlight, taken |-> {}]]
  /\ \E status \in {200, 404} : Reply(p, [NoResponse EXCEPT !.status = status])
  /\ UNCHANGED <<bookings, bookedSeats, body, client>>

NextLifecycle ==
  \/ \E p \in Procs, u \in UserIds, b \in SeededBodies : PostBooking(p, u, b)
  \/ \E p \in Procs : InsertBooking(p)
  \/ \E p \in Procs : InsertSeats(p)
  \/ \E p \in Procs : StorageFault(p)
  \/ \E p \in Procs, u \in UserIds, i \in IntentIds,
        id \in 1..(MaxReq + 1) : PostConfirmPayment(p, u, i, id)
  \/ \E p \in Procs : RetrieveIntent(p)
  \/ \E p \in Procs : UpdateBooking(p)
  \/ \E p \in Procs : FetchBooking(p)
  \/ \E p \in Procs : FetchSeats(p)
  \/ \E p \in Procs, u \in UserIds,
        id \in 1..(MaxReq + 1) : PostCancelBooking(p, u, id)

SpecLifecycle == InitSeeded /\ [][NextLifecycle]_vars

\* ------------------------------------------- requests that differ in amounts
\* a document for seat A1 of trip t1 carrying the given amounts (the decimal
\* columns take any number, insertBookingSchema only requires their presence)
PricedBody(totalAmount, discountAmount, finalAmount) ==
  [Body(BookingFields, "t1", <<Seat("A1", "Passenger")>>) EXCEPT
     !.totalAmount = totalAmount,
     !.discountAmount = discountAmount,
     !.finalAmount = finalAmount]

PricedBodies ==
  { PricedBody(100, 0, 100),
    PricedBody(110, 0, 110),
    PricedBody(110, 20, 90),
    PricedBody(110, 150, 0),
    PricedBody(110, 20, 110),
    PricedBody(110, 150, -40) }

NextPricing ==
  \/ \E p \in Procs, u \in UserIds, b \in PricedBodies : PostBooking(p, u, b)
  \/ \E p \in Procs : InsertBooking(p)
  \/ \E p \in Procs : InsertSeats(p)
  \/ \E p \in Procs : StorageFault(p)

SpecPricing == Init /\ [][NextPricing]_vars

\* ------------------------------------------- the SeatSelection component
\* Amounts are whole riyals: parseFloat and toFixed(2) of such an amount
\* ("110.00") are exact, and every percentage below gives a whole amount.

\* rows of table promotions POST /api/promotions/validate returns, by promo
\* code; POST /api/promotions stores any decimal as discountValue
Promotions ==
  [SAVE20  |-> [discountType |-> "percentage",   discountValue |-> 20],
   HALF    |-> [discountType |-> "percentage",   discountValue |-> 50],
   TRIPLE  |-> [discountType |-> "percentage",   discountValue |-> 150],
   MINUS10 |-> [discountType |-> "percentage",   discountValue |-> -10],
   FLAT30  |-> [discountType |-> "fixed_amount", discountValue |-> 30],
   FLAT105 |-> [discountType |-> "fixed_amount", discountValue |-> 105],
   MINUS5  |-> [discountType |-> "fixed_amount", discountValue |-> -5]]

PromoCodes == DOMAIN Promotions

\* const serviceFee = 10; // SAR
serviceFee == 10

\* the seat labels of the first two rows (no bus here has more than eight seats)
SeatNames == <<"A1", "A2", "A3", "A4", "B1", "B2", "B3", "B4">>

\* rows of four seats, cut to the capacity of the bus
generateSeatLayout(capacity) ==
  SubSeq(SeatNames, 1, IF capacity <= Len(SeatNames) THEN capacity ELSE Len(SeatNames))

Min(a, b) == IF a <= b THEN a ELSE b

\* validatePromoMutation.onSuccess: the value setDiscount receives
PromoDiscount(promotion, tripPrice) ==
  Min(IF promotion.discountType = "percentage"
      THEN (tripPrice * promotion.discountValue) \div 100
      ELSE promotion.discountValue,
      tripPrice)

\* the bookingData handleBooking passes to createBookingMutation.mutate
BookingData(tripId, selectedSeats, discount) ==
  [Body(BookingFields \ {"bookingReference"}, tripId,
        [i \in DOMAIN selectedSeats |-> Seat(selectedSeats[i], "Passenger")])
     EXCEPT !.totalAmount = Trips[tripId].price + serviceFee,
            !.discountAmount = discount,
            !.finalAmount = (Trips[tripId].price + serviceFee) - discount,
            !.bookingReference = NULL]

\* the component mounted for a trip, after fetchBookedSeats has answered
InitClient ==
  /\ bookings = <<SeedBooking>>
  /\ bookedSeats = <<SeedSeat>>
  /\ kind = [p \in Procs |-> "none"]
  /\ pc = [p \in Procs |-> "idle"]
  /\ caller = [p \in Procs |-> NULL]
  /\ body = [p \in Procs |-> NoBody]
  /\ local = [p \in Procs |-> NoLocal]
  /\ response = [p \in Procs |-> NoResponse]
  /\ arrival = [p \in Procs |-> NoArrival]
  /\ \E t \in { x \in TripIds : Trips[x].status = "scheduled" } :
       client = [NoClient EXCEPT
                   !.trip = t,
                   !.bookedSeats = [i \in DOMAIN getTripSeats(t) |->
                                      getTripSeats(t)[i].seatNumber]]

server == <<bookings, bookedSeats, kind, pc, caller, body, local, response, arrival>>

\* a click that adds the seat to the selection instead of replacing it
handleSeatClickAddingSeat(seatNumber) ==
  /\ client.trip # NULL
  /\ seatNumber \in Range(generateSeatLayout(Trips[client.trip].capacity))
  /\ IF seatNumber \in Range(client.bookedSeats)
     THEN UNCHANGED client
     ELSE IF seatNumber \in Range(client.selectedSeats)
     THEN client' = [client EXCEPT !.selectedSeats =
                        SelectSeq(@, LAMBDA x : x # seatNumber)]
     ELSE client' = [client EXCEPT !.selectedSeats = Append(@, seatNumber)]
  /\ UNCHANGED server

\* a click on one of the seats the component renders (allSeats)
handleSeatClick(seatNumber) ==
  /\ client.trip # NULL
  /\ seatNumber \in Range(generateSeatLayout(Trips[client.trip].capacity))
  /\ IF seatNumber \in Range(client.bookedSeats)
     THEN UNCHANGED client
     ELSE IF seatNumber \in Range(client.selectedSeats)
     THEN client' = [client EXCEPT !.selectedSeats =
                        SelectSeq(@, LAMBDA x : x # seatNumber)]
     ELSE client' = [client EXCEPT !.selectedSeats = <<seatNumber>>]
  /\ UNCHANGED server

\* the promo code typed in was accepted by POST /api/promotions/validate
ApplyPromo(promoCode) ==
  /\ client.trip # NULL
  /\ client' = [client EXCEPT
                  !.promotion = promoCode,
                  !.discount = PromoDiscount(Promotions[promoCode],
                                             Trips[client.trip].price)]
  /\ UNCHANGED server

handleBooking ==
  /\ client.trip # NULL
  /\ IF Len(client.selectedSeats) = 0
     THEN UNCHANGED client
     ELSE client' = [client EXCEPT !.bookingData =
                        BookingData(client.trip, client.selectedSeats, client.discount)]
  /\ UNCHANGED server

NextClient ==
  \/ \E seatNumber \in Range(SeatNames) : handleSeatClick(seatNumber)
  \/ \E promoCode \in PromoCodes : ApplyPromo(promoCode)
  \/ handleBooking

SpecClient == InitClient /\ [][NextClient]_vars

\* ------------------------------------------- GET /api/bookings/:bookingId
\* the handler up to its first await: getBookingById issues its first select
GetBooking(p, u, bookingId) ==
  /\ MayArrive(p)
  /\ kind' = [kind EXCEPT ![p] = "get"]
  /\ caller' = [caller EXCEPT ![p] = u]
  /\ local' = [local EXCEPT ![p].bookingId = bookingId]
  /\ arrival' = [arrival EXCEPT ![p] = [inflight |-> InFlight, taken |-> {}]]
  /\ pc' = [pc EXCEPT ![p] = "fetchBooking"]
  /\ UNCHANGED <<bookings, bookedSeats, body, response, client>>

\* the first select of getBookingById; null: 404 "Booking not found"
GetBookingSelect(p) ==
  /\ kind[p] = "get" /\ pc[p] = "fetchBooking"
  /\ IF BookingOf(local[p].bookingId, caller[p]) = NoBooking
     THEN /\ Reply(p, [NoResponse EXCEPT !.status = 404,
                                         !.message = "Booking not found"])
          /\ UNCHANGED local
     ELSE /\ local' = [local EXCEPT ![p].bookingResult =
                          BookingOf(local[p].bookingId, caller[p])]
          /\ pc' = [pc EXCEPT ![p] = "fetchSeats"]
          /\ UNCHANGED response
  /\ UNCHANGED <<bookings, bookedSeats, kind, caller, body, arrival, client>>

\* the second select of getBookingById; res.json(booking)
GetBookingSeats(p) ==
  /\ kind[p] = "get" /\ pc[p] = "fetchSeats"
  /\ Reply(p, [NoResponse EXCEPT !.status = 200,
                                 !.booking = local[p].bookingResult,
                                 !.bookedSeats = SeatsOfBooking(local[p].bookingId)])
  /\ UNCHANGED <<bookings, bookedSeats, kind, caller, body, local, arrival, client>>

\* the catch block: a select of getBookingById that throws is answered 500
GetBookingFault(p) ==
  /\ kind[p] = "get" /\ pc[p] \in {"fetchBooking", "fetchSeats"}
  /\ Catch(p, "connection_error",
           [NoResponse EXCEPT !.status = 500,
                              !.message = "Failed to fetch booking"])
  /\ UNCHANGED <<bookings, bookedSeats, kind, caller, body, arrival, client>>

NextRead ==
  \/ \E p \in Procs, u \in UserIds, b \in SeededBodies : PostBooking(p, u, b)
  \/ \E p \in Procs : InsertBooking(p)
  \/ \E p \in Procs : InsertSeats(p)
  \/ \E p \in Procs : StorageFault(p)
  \/ \E p \in Procs, u \in UserIds, id \in 1..(MaxReq + 1) : GetBooking(p, u, id)
  \/ \E p \in Procs : GetBookingSelect(p)
  \/ \E p \in Procs : GetBookingSeats(p)
  \/ \E p \in Procs : GetBookingFault(p)

SpecRead == InitSeeded /\ [][NextRead]_vars

\* ------------------------------- requests a validating server would refuse
\* documents that pass insertBookingSchema: for a trip that has left, for no
\* trip, with no seat, with one seat twice, with a seat the bus of t2 does
\* not have, with an empty passenger name; and one for a free seat of t1
UncheckedBodies ==
  { Body(BookingFields, "t3", <<Seat("A1", "Passenger")>>),
    Body(BookingFields, NoSuchTrip, <<Seat("A1", "Passenger")>>),
    Body(BookingFields, "t1", <<>>),
    Body(BookingFields, "t1", <<Seat("A1", "Passenger"), Seat("A1", "Passenger")>>),
    Body(BookingFields, "t2", <<Seat("B7", "Passenger")>>),
    Body(BookingFields, "t1", <<Seat("A1", "")>>),
    Body(BookingFields, "t1", <<Seat("A2", "Passenger")>>) }

NextUnchecked ==
  \/ \E p \in Procs, u \in UserIds, b \in UncheckedBodies : PostBooking(p, u, b)
  \/ \E p \in Procs : InsertBooking(p)
  \/ \E p \in Procs : InsertSeats(p)
  \/ \E p \in Procs : StorageFault(p)

SpecUnchecked == Init /\ [][NextUnchecked]_vars

\* ------------------------------------------- POST /api/promotions/validate
\* table promotions, by promo code: SAVE20 runs from time 2 to time 4, SUMMER
\* ended at time 1, PAUSED is switched off
PromotionRows ==
  [SAVE20 |-> [isActive |-> TRUE,  startDate |-> 2, endDate |-> 4],
   SUMMER |-> [isActive |-> TRUE,  startDate |-> 0, endDate |-> 1],
   PAUSED |-> [isActive |-> FALSE, startDate |-> 2, endDate |-> 4]]

\* the promoCode of a request body: a stored code, a code that names no row,
\* or none ("")
RequestedCodes == DOMAIN PromotionRows \cup {"NOPE", ""}

\* the values new Date() may take when validatePromoCode runs
Clock == 1..5

\* the select of validatePromoCode without the test of is_active
validatePromoCodeIgnoringActive(promoCode, now) ==
  IF /\ promoCode \in DOMAIN PromotionRows
     /\ PromotionRows[promoCode].startDate <= now
     /\ PromotionRows[promoCode].endDate >= now
  THEN promoCode ELSE NULL

\* the row validatePromoCode returns (named by its code), or null
validatePromoCode(promoCode, now) ==
  IF /\ promoCode \in DOMAIN PromotionRows
     /\ PromotionRows[promoCode].isActive = TRUE
     /\ PromotionRows[promoCode].startDate <= now
     /\ PromotionRows[promoCode].endDate >= now
  THEN promoCode ELSE NULL

\* the handler up to its await: a missing code is answered at once, else
\* validatePromoCode takes the time and issues its select
PostValidatePromo(p, promoCode, now) ==
  /\ MayArrive(p)
  /\ kind' = [kind EXCEPT ![p] = "validate"]
  /\ arrival' = [arrival EXCEPT ![p] = [inflight |-> InFlight, taken |-> {}]]
  /\ local' = [local EXCEPT ![p].promoCode = promoCode, ![p].now = now]
  /\ IF promoCode = ""
     THEN Reply(p, [NoResponse EXCEPT !.status = 400,
                                     !.message = "Promo code is required"])
     ELSE pc' = [pc EXCEPT ![p] = "selectPromotion"] /\ UNCHANGED response
  /\ UNCHANGED <<bookings, bookedSeats, caller, body, client>>

\* the select answers: no row is 404, a row is sent as it is
SelectPromotion(p) ==
  /\ kind[p] = "validate" /\ pc[p] = "selectPromotion"
  /\ IF validatePromoCode(local[p].promoCode, local[p].now) = NULL
     THEN Reply(p, [NoResponse EXCEPT !.status = 404,
                                     !.message = "Invalid promo code"])
     ELSE Reply(p, [NoResponse EXCEPT
                      !.status = 200,
                      !.promotion = validatePromoCode(local[p].promoCode, local[p].now)])
  /\ UNCHANGED <<bookings, bookedSeats, kind, caller, body, local, arrival, client>>

\* the catch block: a select that throws is answered 500
ValidatePromoFault(p) ==
  /\ kind[p] = "validate" /\ pc[p] = "selectPromotion"
  /\ Catch(p, "connection_error",
           [NoResponse EXCEPT !.status = 500,
                              !.message = "Failed to validate promo code"])
  /\ UNCHANGED <<bookings, bookedSeats, kind, caller, body, arrival, client>>

NextPromo ==
  \/ \E p \in Procs, promoCode \in RequestedCodes, now \in Clock :
        PostValidatePromo(p, promoCode, now)
  \/ \E p \in Procs : SelectPromotion(p)
  \/ \E p \in Procs : ValidatePromoFault(p)

SpecPromo == Init /\ [][NextPromo]_vars

\* --------------------------------------------------- GET /api/trips/search
Cities == {"Makkah", "Madinah"}

\* the calendar days a search may name
Days == 0..2

\* new Date("yyyy-mm-dd"): 00:00 of that day
DayStart(date) == date * TicksPerDay

\* the first select of searchTrips: startDate and endDate = startDate plus
\* one day, both bounds inclusive (gte, lte)
searchTrips(originCity, destinationCity, date) ==
  { t \in TripIds :
      /\ Trips[t].originCity = originCity
      /\ Trips[t].destinationCity = destinationCity
      /\ Trips[t].departureTime >= DayStart(date)
      /\ Trips[t].departureTime <= DayStart(date) + TicksPerDay
      /\ Trips[t].status = "scheduled" }

\* the handler up to its await: a missing parameter ("" here) is answered
\* 400, else searchTrips issues its select
GetSearchTrips(p, originCity, destinationCity, date) ==
  /\ MayArrive(p)
  /\ kind' = [kind EXCEPT ![p] = "search"]
  /\ arrival' = [arrival EXCEPT ![p] = [inflight |-> InFlight, taken |-> {}]]
  /\ local' = [local EXCEPT ![p].params = <<originCity, destinationCity, date>>]
  /\ IF originCity = "" \/ destinationCity = ""
     THEN Reply(p, [NoResponse EXCEPT
                      !.status = 400,
                      !.message = "Missing required search parameters"])
     ELSE pc' = [pc EXCEPT ![p] = "selectTrips"] /\ UNCHANGED response
  /\ UNCHANGED <<bookings, bookedSeats, caller, body, client>>

\* the select answers; Promise.all over no trip resolves to [] at once
SearchSelectTrips(p) ==
  /\ kind[p] = "search" /\ pc[p] = "selectTrips"
  /\ LET found == searchTrips(local[p].params[1], local[p].params[2],
                              local[p].params[3])
     IN IF found = {}
        THEN /\ Reply(p, [NoResponse EXCEPT !.status = 200])
             /\ UNCHANGED local
        ELSE /\ local' = [local EXCEPT ![p].tripsWithDetails = found]
             /\ pc' = [pc EXCEPT ![p] = "countSeats"]
             /\ UNCHANGED response
  /\ UNCHANGED <<bookings, bookedSeats, kind, caller, body, arrival, client>>

\* one count query of the Promise.all answers; after the last one,
\* res.json(trips)
SearchCountSeats(p, t) ==
  /\ kind[p] = "search" /\ pc[p] = "countSeats"
  /\ t \in local[p].tripsWithDetails
  /\ LET counted == local[p].tripsWithAvailability
                      \cup {[id |-> t, availableSeats |-> availableSeats(t)]}
         left == local[p].tripsWithDetails \ {t}
     IN /\ local' = [local EXCEPT ![p].tripsWithDetails = left,
                                  ![p].tripsWithAvailability = counted]
        /\ IF left = {}
           THEN Reply(p, [NoResponse EXCEPT !.status = 200, !.trips = counted])
           ELSE UNCHANGED <<pc, response>>
  /\ UNCHANGED <<bookings, bookedSeats, kind, caller, body, arrival, client>>

\* the catch block: a query that throws is answered 500
SearchFault(p) ==
  /\ kind[p] = "search" /\ pc[p] \in {"selectTrips", "countSeats"}
  /\ Catch(p, "connection_error",
           [NoResponse EXCEPT !.status = 500,
                              !.message = "Failed to search trips"])
  /\ UNCHANGED <<bookings, bookedSeats, kind, caller, body, arrival, client>>

NextSearch ==
  \/ \E p \in Procs, u \in UserIds, b \in SeededBodies : PostBooking(p, u, b)
  \/ \E p \in Procs : InsertBooking(p)
  \/ \E p \in Procs : InsertSeats(p)
  \/ \E p \in Procs : StorageFault(p)
  \/ \E p \in Procs, originCity \in Cities \cup {""}, destinationCity \in Cities,
        date \in Days : GetSearchTrips(p, originCity, destinationCity, date)
  \/ \E p \in Procs : SearchSelectTrips(p)
  \/ \E p \in Procs, t \in TripIds : SearchCountSeats(p, t)
  \/ \E p \in Procs : SearchFault(p)

SpecSearch == InitSeeded /\ [][NextSearch]_vars

\* ------------------------- documents that name an owner, a status, a reference
\* a document for seat `seat` of trip t1 with the keys userId, status and
\* bookingReference set by the sender
ForgedBody(seat, userId, status, bookingReference) ==
  [Body(BookingFields \cup {"userId", "status"}, "t1",
        <<Seat(seat, "Passenger")>>) EXCEPT
     !.userId = userId, !.status = status, !.bookingReference = bookingReference]

\* the sender names itself or the other user, a status of the life cycle,
\* and a reference of its own or the one of the stored booking
ForgedBodies ==
  { ForgedBody("A1", "u1", "pending", "x"),
    ForgedBody("A1", "u2", "cancelled", "x"),
    ForgedBody("A2", "u2", "refunded", SeedBooking.bookingReference),
    ForgedBody("A2", "u1", "cancelled", SeedBooking.bookingReference) }

NextForged ==
  \/ \E p \in Procs, u \in UserIds, b \in ForgedBodies : PostBooking(p, u, b)
  \/ \E p \in Procs : InsertBooking(p)
  \/ \E p \in Procs : InsertSeats(p)
  \/ \E p \in Procs : StorageFault(p)

SpecForged == InitSeeded /\ [][NextForged]_vars

\* ------------------------------------------------------- GET /api/bookings
\* the seats column of a row of the left join that matched no booked_seats row
NoSeat ==
  [bookingId |-> 0, tripId |-> NULL, seatNumber |-> NULL, passengerName |-> NULL]

\* the rows of an inner join with booked_seats: one per seat, newest booking
\* first, and none for a booking without seats
UserBookingRowsInnerJoin(userId) ==
  LET RECURSIVE From(_)
      From(i) ==
        IF i = 0 THEN <<>>
        ELSE (IF bookings[i].userId = userId
              THEN [j \in DOMAIN SeatsOfBooking(i) |->
                      [booking |-> bookings[i], seats |-> SeatsOfBooking(i)[j]]]
              ELSE <<>>) \o From(i - 1)
  IN From(Len(bookings))

\* the rows of the select of getUserBookings: bookings of the user left
\* joined with booked_seats, ordered by created_at descending (rows are
\* created in the order of their ids). The joins with trips, routes and buses
\* match one row each.
UserBookingRows(userId) ==
  LET RECURSIVE From(_)
      From(i) ==
        IF i = 0 THEN <<>>
        ELSE (IF bookings[i].userId # userId THEN <<>>
              ELSE IF SeatsOfBooking(i) = <<>>
              THEN <<[booking |-> bookings[i], seats |-> NoSeat]>>
              ELSE [j \in DOMAIN SeatsOfBooking(i) |->
                      [booking |-> bookings[i], seats |-> SeatsOfBooking(i)[j]]])
             \o From(i - 1)
  IN From(Len(bookings))

\* bookingsMap: the first row of a booking opens its entry with an empty
\* bookedSeats, every row with seats pushes them; Array.from(values()) keeps
\* the order in which the entries were opened
GroupSeats(rows) ==
  LET Has(acc, id) == \E j \in DOMAIN acc : acc[j].booking.id = id
      Opened(acc, row) ==
        IF Has(acc, row.booking.id) THEN acc
        ELSE Append(acc, [booking |-> row.booking, bookedSeats |-> <<>>])
      Pushed(acc, row) ==
        IF row.seats = NoSeat THEN acc
        ELSE [j \in DOMAIN acc |->
                IF acc[j].booking.id = row.booking.id
                THEN [acc[j] EXCEPT !.bookedSeats = Append(@, row.seats)]
                ELSE acc[j]]
      RECURSIVE Fold(_, _)
      Fold(k, acc) ==
        IF k > Len(rows) THEN acc
        ELSE Fold(k + 1, Pushed(Opened(acc, rows[k]), rows[k]))
  IN Fold(1, <<>>)

getUserBookings(userId) == GroupSeats(UserBookingRows(userId))

\* the handler up to its await: getUserBookings issues its select
GetUserBookings(p, u) ==
  /\ MayArrive(p)
  /\ kind' = [kind EXCEPT ![p] = "list"]
  /\ caller' = [caller EXCEPT ![p] = u]
  /\ arrival' = [arrival EXCEPT ![p] = [inflight |-> InFlight, taken |-> {}]]
  /\ pc' = [pc EXCEPT ![p] = "selectUserBookings"]
  /\ UNCHANGED <<bookings, bookedSeats, body, local, response, client>>

\* the select answers; the rows are grouped and sent
SelectUserBookings(p) ==
  /\ kind[p] = "list" /\ pc[p] = "selectUserBookings"
  /\ Reply(p, [NoResponse EXCEPT !.status = 200,
                                 !.userBookings = getUserBookings(caller[p])])
  /\ UNCHANGED <<bookings, bookedSeats, kind, caller, body, local, arrival, client>>

\* the catch block: a select that throws is answered 500
UserBookingsFault(p) ==
  /\ kind[p] = "list" /\ pc[p] = "selectUserBookings"
  /\ Catch(p, "connection_error",
           [NoResponse EXCEPT !.status = 500,
                              !.message = "Failed to fetch bookings"])
  /\ UNCHANGED <<bookings, bookedSeats, kind, caller, body, arrival, client>>

\* documents for both seats of trip t1 at once, for no seat, and for one seat
ListedBodies ==
  { Body(BookingFields, "t1", <<Seat("A1", "Passenger"), Seat("A2", "Passenger")>>),
    Body(BookingFields, "t1", <<>>),
    Body(BookingFields, "t1", <<Seat("A1", "Passenger")>>) }

NextList ==
  \/ \E p \in Procs, u \in UserIds, b \in ListedBodies : PostBooking(p, u, b)
  \/ \E p \in Procs : InsertBooking(p)
  \/ \E p \in Procs : InsertSeats(p)
  \/ \E p \in Procs : StorageFault(p)
  \/ \E p \in Procs, u \in UserIds : GetUserBookings(p, u)
  \/ \E p \in Procs : SelectUserBookings(p)
  \/ \E p \in Procs : UserBookingsFault(p)

SpecList == InitSeeded /\ [][NextList]_vars

\* ------------------------------------------------------------------ claims
Done(p, k) == kind[p] = k /\ pc[p] = "done"

Succeeded(p) == pc[p] = "done" /\ response[p].status = 200

\* p and q were in progress at the same time
Concurrent(p, q) == p \in arrival[q].inflight \/ q \in arrival[p].inflight

\* the call ended on a fault that has nothing to do with its seats
Faulted(p) == local[p].error \in {"connection_error", "unique_violation"}

\* a createBooking call with valid data for seats of an existing trip
ValidBooking(p) ==
  /\ kind[p] = "booking"
  /\ ZodAccepts(body[p])
  /\ "selectedSeats" \in body[p].fields
  /\ body[p].tripId \in TripIds

Requested(p) == SeatNumbersOf(body[p].selectedSeats)

\* the id of the booking createBooking call p persisted, 0 if it persisted none
PersistedBy(p) == IF kind[p] = "booking" THEN local[p].bookingResult.id ELSE 0

\* the seat numbers committed to the booking request p persisted
Committed(p) ==
  { r.seatNumber : r \in { x \in Range(bookedSeats) : x.bookingId = PersistedBy(p) } }

\* C1: on every trip, every seat number is committed to at most one booking
\* whose status is pending or confirmed.
C1_NoDoubleBooking ==
  \A i, j \in DOMAIN bookedSeats :
    ( /\ bookedSeats[i].tripId = bookedSeats[j].tripId
      /\ bookedSeats[i].seatNumber = bookedSeats[j].seatNumber
      /\ bookings[bookedSeats[i].bookingId].status \in {"pending", "confirmed"}
      /\ bookings[bookedSeats[j].bookingId].status \in {"pending", "confirmed"} )
    => bookedSeats[i].bookingId = bookedSeats[j].bookingId

\* the sets of two or more finished createBooking calls that ran concurrently
\* for the same single seat of the same trip, none ended by an unrelated fault
SameSeatRaces ==
  { S \in SUBSET Procs :
      /\ Cardinality(S) >= 2
      /\ \A p \in S : Done(p, "booking") /\ ValidBooking(p) /\ ~Faulted(p)
      /\ \A p \in S : Len(body[p].selectedSeats) = 1
      /\ \A p, q \in S :
           /\ body[p].tripId = body[q].tripId
           /\ Requested(p) = Requested(q)
           /\ (p # q => Concurrent(p, q)) }

\* C2: of N >= 2 concurrent createBooking calls for the same single seat
\* exactly one succeeds, the others fail with a seat conflict naming the
\* seat, and a trip whose last free seat it was then shows 0 available seats.
C2_ExactlyOneWinsTheSeat ==
  \A S \in SameSeatRaces :
    /\ Cardinality({ p \in S : Succeeded(p) }) = 1
    /\ \A p \in S : ~Succeeded(p) =>
          /\ response[p].message = "SeatsUnavailable"
          /\ response[p].seats = Requested(p)
    /\ \A p \in S :
          Cardinality(SeatNumbersOf(getTripSeats(body[p].tripId)))
            = Trips[body[p].tripId].capacity
          => availableSeats(body[p].tripId) = 0

\* p ran with no other call in progress
RanAlone(p) == arrival[p].inflight = {} /\ \A q \in Procs : p \notin arrival[q].inflight

\* C3: a createBooking call, run alone, that requests a seat already
\* committed to another pending or confirmed booking of the trip fails with
\* SeatsUnavailable naming exactly the conflicting seats.
C3_TakenSeatIsRefused ==
  \A p \in Procs :
    ( /\ Done(p, "booking") /\ ValidBooking(p) /\ ~Faulted(p)
      /\ RanAlone(p)
      /\ arrival[p].taken # {} )
    => /\ response[p].status \notin {0, 200}
       /\ response[p].message = "SeatsUnavailable"
       /\ response[p].seats = arrival[p].taken

\* C4: a createBooking call that returned an error has persisted no booking
\* and no seat commitment.
C4_FailedBookingPersistsNothing ==
  \A p \in Procs :
    (Done(p, "booking") /\ response[p].status # 200)
    => /\ PersistedBy(p) \notin DOMAIN bookings
       /\ Committed(p) = {}

\* C5: the seats committed to a new booking are all of the requested seats
\* or none; when some of the requested seats, but not all, were already taken
\* by another booking, none of the remaining ones is committed to it.
C5_AllSeatsOrNone ==
  \A p \in Procs :
    ValidBooking(p) =>
      /\ Committed(p) \in {{}, Requested(p)}
      /\ (arrival[p].taken # {} /\ arrival[p].taken # Requested(p))
           => Committed(p) \cap (Requested(p) \ arrival[p].taken) = {}

\* the request that persisted booking i
CreatorOf(i) == CHOOSE p \in Procs : PersistedBy(p) = i

\* C6: in every state, every persisted booking has all of its requested seat
\* commitments and every seat commitment refers to a persisted booking.
C6_NoPartialStateVisible ==
  /\ \A i \in DOMAIN bookings :
       SeatNumbersOf(getBookingById(i, bookings[i].userId).bookedSeats)
         = Requested(CreatorOf(i))
  /\ \A k \in DOMAIN bookedSeats : bookedSeats[k].bookingId \in DOMAIN bookings

\* C7: a booking persisted and returned by a successful createBooking has
\* status pending, with its seat commitments attached.
C7_CreatedPending ==
  \A p \in Procs :
    (kind[p] = "booking" /\ Succeeded(p))
    => /\ response[p].booking.status = "pending"
       /\ Committed(p) = Requested(p)

\* a confirmation of booking i whose payment Stripe reported as succeeded and
\* whose update of the booking has been executed
VerifiedPayment(i) ==
  \E p \in Procs :
    /\ kind[p] = "confirm"
    /\ local[p].bookingId = i
    /\ local[p].paymentIntentId \in IntentIds
    /\ StripeIntents[local[p].paymentIntentId].status = "succeeded"
    /\ \/ pc[p] \in {"fetchBooking", "fetchSeats"}
       \/ Succeeded(p)

\* C8: a booking is confirmed only if a payment confirmation for it with a
\* verified payment occurred before.
C8_ConfirmedOnlyAfterPayment ==
  \A i \in DOMAIN bookings :
    bookings[i].status = "confirmed" => VerifiedPayment(i)

LegalTransitions ==
  { <<"pending", "confirmed">>, <<"pending", "cancelled">>, <<"confirmed", "refunded">> }

\* request p executes the update of confirmBookingPayment in this step
UpdateStep(p) == kind[p] = "confirm" /\ pc[p] = "update" /\ pc'[p] # "update"

\* the step is request p's update of an existing booking of its caller whose
\* status is not pending
ConfirmOfNonPending(p) ==
  /\ UpdateStep(p)
  /\ ConfirmMatches(local[p].bookingId, caller[p])
  /\ bookings[local[p].bookingId].status # "pending"

Refused(p) ==
  /\ pc'[p] = "done"
  /\ response'[p].status \notin {0, 200}
  /\ response'[p].message = "InvalidTransition"

\* C9: a booking's status changes only along pending->confirmed,
\* pending->cancelled and confirmed->refunded; any other attempted change
\* fails with InvalidTransition and leaves the status as it was.
C9_OnlyLegalTransitions ==
  [][ /\ \A i \in DOMAIN bookings :
           bookings'[i].status # bookings[i].status
           => <<bookings[i].status, bookings'[i].status>> \in LegalTransitions
      /\ \A p \in Procs :
           ConfirmOfNonPending(p)
           => /\ Refused(p)
              /\ bookings'[local[p].bookingId].status
                   = bookings[local[p].bookingId].status ]_vars

\* C10: confirmPayment on a booking that is not pending fails with
\* InvalidTransition and leaves the booking's status, payment reference and
\* payment method unchanged.
C10_ConfirmNonPendingRefused ==
  [][ \A p \in Procs :
        ConfirmOfNonPending(p)
        => /\ Refused(p)
           /\ bookings'[local[p].bookingId].status
                = bookings[local[p].bookingId].status
           /\ bookings'[local[p].bookingId].paymentGatewayId
                = bookings[local[p].bookingId].paymentGatewayId
           /\ bookings'[local[p].bookingId].paymentMethod
                = bookings[local[p].bookingId].paymentMethod ]_vars

\* request p's update finds no booking with its id owned by its caller
NoSuchBookingOfCaller(p) ==
  \/ local[p].bookingId \notin DOMAIN bookings
  \/ bookings[local[p].bookingId].userId # caller[p]

NotFound(p) ==
  /\ pc'[p] = "done"
  /\ response'[p].status \notin {0, 200}
  /\ local'[p].error = "Booking not found or access denied"

\* C11: confirmPayment for a booking that does not exist or that another user
\* owns fails as not found, and no booking changes.
C11_ConfirmUnknownBookingFails ==
  [][ \A p \in Procs :
        UpdateStep(p) /\ NoSuchBookingOfCaller(p)
        => NotFound(p) /\ bookings' = bookings /\ bookedSeats' = bookedSeats ]_vars

\* a confirmation by a user who does not own the booking was refused
C11_Witness ==
  \E p \in Procs :
    /\ Done(p, "confirm")
    /\ local[p].error = "Booking not found or access denied"
    /\ local[p].bookingId \in DOMAIN bookings
    /\ bookings[local[p].bookingId].userId # caller[p]
    /\ bookings[local[p].bookingId].paymentGatewayId = NULL

\* request p's update changed a booking in this step
UpdateSucceeds(p) == UpdateStep(p) /\ pc'[p] = "fetchBooking"

\* request p reads the booking back (getBookingById) in this step
ReadBack(p) ==
  kind[p] = "confirm" /\ pc[p] \in {"fetchBooking", "fetchSeats"} /\ pc'[p] # pc[p]

\* C12: a successful confirmPayment sets the target booking's status to
\* confirmed, its payment reference and its payment method, and changes
\* nothing else: no seat commitment, no other booking, and not the target's
\* owner, trip, amounts or booking reference.
C12_ConfirmChangesOnlyPaymentFields ==
  [][ \A p \in Procs :
        /\ UpdateSucceeds(p)
           => /\ bookedSeats' = bookedSeats
              /\ DOMAIN bookings' = DOMAIN bookings
              /\ \A i \in DOMAIN bookings :
                    i # local[p].bookingId => bookings'[i] = bookings[i]
              /\ bookings'[local[p].bookingId] =
                    [bookings[local[p].bookingId] EXCEPT
                       !.status = "confirmed",
                       !.paymentGatewayId = local[p].paymentIntentId,
                       !.paymentMethod = "stripe"]
        /\ ReadBack(p) => bookings' = bookings /\ bookedSeats' = bookedSeats ]_vars

\* a confirmation succeeded while another booking and seat commitments existed
C12_Witness ==
  \E p \in Procs :
    /\ Done(p, "confirm") /\ Succeeded(p)
    /\ response[p].booking.paymentGatewayId = local[p].paymentIntentId
    /\ bookings[local[p].bookingId].paymentMethod = "stripe"
    /\ Len(bookings) > 1
    /\ bookedSeats # <<>>

\* request p asks in this step to cancel a pending or confirmed booking of
\* its caller
CancelByOwner(p) ==
  /\ kind[p] = "none" /\ kind'[p] = "cancel"
  /\ local'[p].bookingId \in DOMAIN bookings
  /\ bookings[local'[p].bookingId].userId = caller'[p]
  /\ bookings[local'[p].bookingId].status \in {"pending", "confirmed"}

\* C13: cancelBooking by the owner of a pending or confirmed booking
\* succeeds, sets the status to cancelled and releases every seat of the
\* booking, so that the seat map of the trip no longer shows them occupied.
C13_CancelReleasesSeats ==
  [][ \A p \in Procs :
        CancelByOwner(p)
        => /\ response'[p].status = 200
           /\ bookings'[local'[p].bookingId].status = "cancelled"
           /\ \A i \in DOMAIN bookedSeats' :
                 bookedSeats'[i].bookingId # local'[p].bookingId ]_vars

\* the seats of a trip held by a pending or confirmed booking
OccupiedSeats(tripId) ==
  { r.seatNumber : r \in { x \in Range(getTripSeats(tripId)) :
                             ActiveHolders(tripId, x.seatNumber) # {} } }

\* C16: the available-seat count reported for a trip is the capacity of its
\* bus minus the number of distinct occupied seats, clamped to 0: it is never
\* negative.
C16_AvailableCountIsCapacityMinusOccupied ==
  \A t \in TripIds :
    /\ availableSeats(t) >= 0
    /\ availableSeats(t) =
         IF Trips[t].capacity >= Cardinality(OccupiedSeats(t))
         THEN Trips[t].capacity - Cardinality(OccupiedSeats(t)) ELSE 0

\* C17: once createBooking has returned success for seats S on trip T, every
\* read of getTripSeats(T) includes every seat of S for as long as the
\* booking is neither cancelled nor refunded.
C17_CommittedSeatsStayOccupied ==
  \A p \in Procs :
    /\ kind[p] = "booking" /\ Succeeded(p)
    /\ bookings[PersistedBy(p)].status \in {"pending", "confirmed"}
    => Requested(p) \subseteq SeatNumbersOf(getTripSeats(body[p].tripId))

\* a booking of two seats succeeded and a later request has completed
C17_Witness ==
  \E p, q \in Procs :
    /\ kind[p] = "booking" /\ Succeeded(p)
    /\ Cardinality(Requested(p)) = 2
    /\ q > p /\ pc[q] = "done" /\ p \notin arrival[q].inflight

\* p and q are createBooking calls with valid data that overlapped in time,
\* for disjoint sets of seats of one trip that were free when each arrived
DisjointConcurrent(p, q) ==
  /\ p # q
  /\ ValidBooking(p) /\ ValidBooking(q)
  /\ body[p].tripId = body[q].tripId
  /\ Concurrent(p, q)
  /\ Requested(p) \cap Requested(q) = {}
  /\ arrival[p].taken = {} /\ arrival[q].taken = {}

C19_FinalAmountIsTotalMinusDiscount ==
  \A i \in DOMAIN bookings :
    /\ bookings[i].finalAmount >= 0
    /\ bookings[i].finalAmount =
         IF bookings[i].totalAmount >= bookings[i].discountAmount
         THEN bookings[i].totalAmount - bookings[i].discountAmount ELSE 0

\* the discount the claim gives for a promotion on base amount B
ClaimedDiscount(promotion, B) ==
  IF promotion.discountType = "percentage"
  THEN IF (B * promotion.discountValue) \div 100 < 0 THEN 0
       ELSE Min((B * promotion.discountValue) \div 100, B)
  ELSE Min(promotion.discountValue, B)

\* C20: the discount computed for a promotion on a booking whose totalAmount
\* is B is B * value / 100 clamped to [0, B] for a percentage promotion and
\* min(value, B) for a fixed_amount promotion; it is never negative and
\* never more than B, and the finalAmount sent is B minus that discount.
C20_DiscountIsClampedShareOfTotal ==
  client.promotion # NULL /\ client.selectedSeats # <<>>
  => LET sent == BookingData(client.trip, client.selectedSeats, client.discount)
     IN /\ sent.discountAmount =
             ClaimedDiscount(Promotions[client.promotion], sent.totalAmount)
        /\ sent.discountAmount >= 0
        /\ sent.discountAmount <= sent.totalAmount
        /\ sent.finalAmount = sent.totalAmount - sent.discountAmount

\* C21: the discountAmount of a persisted booking is 0 or the amount the
\* promotion evaluator derives from a valid promotion: no createBooking
\* request obtains a discount that no valid promotion justifies.
C21_DiscountJustifiedByPromotion ==
  \A i \in DOMAIN bookings :
    \/ bookings[i].discountAmount = 0
    \/ \E c \in PromoCodes :
         bookings[i].discountAmount \in
           { PromoDiscount(Promotions[c], Trips[bookings[i].tripId].price),
             ClaimedDiscount(Promotions[c], bookings[i].totalAmount) }

\* the number of seats committed to booking i
SeatCount(i) == Len(SeatsOfBooking(i))

\* C22: the totalAmount of every persisted booking is the list price of its
\* trip multiplied by the number of its seats.
C22_TotalIsPriceTimesSeats ==
  \A p \in Procs :
    kind[p] = "booking" /\ Succeeded(p)
    => bookings[PersistedBy(p)].totalAmount
         = Trips[bookings[PersistedBy(p)].tripId].price * SeatCount(PersistedBy(p))

\* C23: no two persisted bookings share a booking reference: a generated
\* reference that collides with a stored one never yields a second booking
\* with that reference.
C23_ReferencesUnique ==
  \A i, j \in DOMAIN bookings :
    bookings[i].bookingReference = bookings[j].bookingReference => i = j

\* a call drew the reference of a stored booking and was refused
C23_Witness ==
  \E p \in Procs :
    /\ Done(p, "booking")
    /\ local[p].error = "unique_violation"
    /\ PersistedBy(p) = 0
    /\ Len(bookings) > 1

\* q is a getBooking call by the owner of the booking createBooking call p
\* returned, made after p returned
ReadsBack(q, p) ==
  /\ kind[p] = "booking" /\ Succeeded(p)
  /\ Done(q, "get") /\ ~Faulted(q)
  /\ p < q /\ p \notin arrival[q].inflight
  /\ local[q].bookingId = response[p].booking.id
  /\ caller[q] = caller[p]

\* the seat numbers with passenger names of a list of seats, in order
SeatList(seats) ==
  [i \in DOMAIN seats |-> Seat(seats[i].seatNumber, seats[i].passengerName)]

\* C24: after a successful createBooking, getBooking with the returned id
\* and the same owner returns the booking with the seat list and the amounts
\* of the creation and with status pending (until it is paid).
C24_CreateThenGetRoundTrip ==
  \A p, q \in Procs :
    ReadsBack(q, p)
    => /\ response[q].status = 200
       /\ SeatList(response[q].bookedSeats) = SeatList(body[p].selectedSeats)
       /\ response[q].booking.totalAmount = body[p].totalAmount
       /\ response[q].booking.discountAmount = body[p].discountAmount
       /\ response[q].booking.finalAmount = body[p].finalAmount
       /\ response[q].booking.paymentGatewayId = NULL
          => response[q].booking.status = "pending"

\* what GET /api/bookings/:bookingId answers for an id that names no booking
BookingNotFound ==
  [NoResponse EXCEPT !.status = 404, !.message = "Booking not found"]

\* C25: getBooking returns a booking only to its owner; for a booking of
\* another user the result is the not-found result of an id that names no
\* booking (a read the database failed is answered 500 for every id).
C25_GetBookingOwnerOnly ==
  \A p \in Procs :
    Done(p, "get") /\ ~Faulted(p)
    => /\ response[p].status = 200
          => /\ response[p].booking.id = local[p].bookingId
             /\ response[p].booking.userId = caller[p]
             /\ bookings[local[p].bookingId].userId = caller[p]
       /\ ( \/ local[p].bookingId \notin DOMAIN bookings
            \/ bookings[local[p].bookingId].userId # caller[p] )
          => response[p] = BookingNotFound

\* a user asked for a stored booking of another user and got not-found
C25_Witness ==
  \E p \in Procs :
    /\ Done(p, "get")
    /\ local[p].bookingId \in DOMAIN bookings
    /\ bookings[local[p].bookingId].userId # caller[p]
    /\ response[p] = BookingNotFound

\* the call was refused and left no row behind
RejectedWithoutTrace(p) ==
  /\ response[p].status \notin {0, 200}
  /\ PersistedBy(p) = 0
  /\ \A i \in DOMAIN bookings : CreatorOf(i) # p

\* C26: createBooking for a trip that does not exist or is not scheduled
\* fails and persists no booking and no seat commitment.
C26_UnbookableTripRefused ==
  \A p \in Procs :
    /\ Done(p, "booking")
    /\ ZodAccepts(body[p])
    /\ \/ body[p].tripId \notin TripIds
       \/ Trips[body[p].tripId].status # "scheduled"
    => RejectedWithoutTrace(p)

\* the seat list is empty, names a seat twice, names a seat the bus does not
\* have, or has an entry with an empty passenger name
InvalidSeatSelection(b) ==
  \/ Len(b.selectedSeats) = 0
  \/ \E i, j \in DOMAIN b.selectedSeats :
       i # j /\ b.selectedSeats[i].seatNumber = b.selectedSeats[j].seatNumber
  \/ \E i \in DOMAIN b.selectedSeats :
       \/ b.selectedSeats[i].seatNumber
            \notin Range(generateSeatLayout(Trips[b.tripId].capacity))
       \/ b.selectedSeats[i].passengerName = ""

\* C27: createBooking rejects, persisting nothing, a request whose seat list
\* is empty, contains a seat twice, contains a seat outside the capacity of
\* the bus, or has an entry with an empty passenger name.
C27_InvalidSeatSelectionRefused ==
  \A p \in Procs :
    /\ Done(p, "booking")
    /\ ZodAccepts(body[p])
    /\ "selectedSeats" \in body[p].fields
    /\ body[p].tripId \in TripIds
    /\ Trips[body[p].tripId].status = "scheduled"
    /\ InvalidSeatSelection(body[p])
    => RejectedWithoutTrace(p)

\* request p carries the documented fields and no bookingReference, for
\* seats of a scheduled trip that were free when it arrived
DocumentedRequest(p) ==
  /\ kind[p] = "booking"
  /\ body[p].fields = BookingFields \ {"bookingReference"}
  /\ body[p].tripId \in TripIds
  /\ Trips[body[p].tripId].status = "scheduled"
  /\ ~InvalidSeatSelection(body[p])
  /\ arrival[p].taken = {}

\* C28: a createBooking request of an authenticated user that carries the
\* documented fields (tripId, amounts, selectedSeats with passenger names,
\* no bookingReference) for free seats of a scheduled trip passes validation
\* and returns a booking (unless the storage layer fails).
C28_DocumentedRequestAccepted ==
  \A p \in Procs :
    DocumentedRequest(p) /\ pc[p] = "done" /\ ~Faulted(p)
    => /\ Succeeded(p)
       /\ response[p].booking # NoBooking

\* request p asked to validate a code that is unknown or inactive
UnknownOrInactive(p) ==
  \/ local[p].promoCode \notin DOMAIN PromotionRows
  \/ ~PromotionRows[local[p].promoCode].isActive

\* request p asked to validate an active code outside its validity period
OutOfPeriod(p) ==
  /\ local[p].promoCode \in DOMAIN PromotionRows
  /\ PromotionRows[local[p].promoCode].isActive
  /\ \/ local[p].now < PromotionRows[local[p].promoCode].startDate
     \/ local[p].now > PromotionRows[local[p].promoCode].endDate

\* request p validated a code and has the answer of the select
Validated(p) ==
  Done(p, "validate") /\ local[p].promoCode # "" /\ ~Faulted(p)

\* validate returns the promotion exactly for an existing, active code
\* whose period contains the time of the call, and fails otherwise
ReturnsExactlyValid(p) ==
  /\ response[p].status = 200
       <=> ~UnknownOrInactive(p) /\ ~OutOfPeriod(p)
  /\ response[p].status = 200 => response[p].promotion = local[p].promoCode
  /\ response[p].status # 200
       => response[p].status = 404 /\ response[p].promotion = NULL

\* C29 as stated: validate fails NotFound for an unknown or inactive code
\* and fails Expired for a time outside [startDate, endDate], two different
\* failures, and otherwise returns the promotion; it returns a promotion only
\* for an existing, active code within its period.
C29_ValidateTellsExpiredFromNotFound ==
  /\ \A p \in Procs : Validated(p) => ReturnsExactlyValid(p)
  /\ \A p, q \in Procs :
       Validated(p) /\ Validated(q) /\ UnknownOrInactive(p) /\ OutOfPeriod(q)
       => <<response[p].status, response[p].message>>
            # <<response[q].status, response[q].message>>

\* C29, amended: validate returns the promotion exactly for an existing,
\* active code with startDate <= time of the call <= endDate; in every other
\* case it fails with the one error 404 "Invalid promo code", the same for
\* an unknown, an inactive and an expired code (a select the database failed
\* is answered 500).
C29_ValidateReturnsExactlyValid ==
  \A p \in Procs :
    Validated(p)
    => /\ ReturnsExactlyValid(p)
       /\ response[p].status # 200 => response[p].message = "Invalid promo code"

\* SAVE20 was returned on the last day of its period, and SUMMER was refused
\* after its period
C29_Witness ==
  \E p, q \in Procs :
    /\ Validated(p) /\ local[p].promoCode = "SAVE20"
    /\ local[p].now = PromotionRows["SAVE20"].endDate
    /\ response[p].promotion = "SAVE20"
    /\ Validated(q) /\ OutOfPeriod(q)
    /\ response[q].message = "Invalid promo code"

\* request p searched with all its parameters and was answered by the queries
Searched(p) ==
  Done(p, "search") /\ response[p].status # 400 /\ ~Faulted(p)

\* the scheduled trips from originCity to destinationCity that depart on
\* calendar day date
TripsOfTheDay(originCity, destinationCity, date) ==
  { t \in TripIds :
      /\ Trips[t].status = "scheduled"
      /\ Trips[t].originCity = originCity
      /\ Trips[t].destinationCity = destinationCity
      /\ DayStart(date) <= Trips[t].departureTime
      /\ Trips[t].departureTime < DayStart(date + 1) }

\* C30: searchTrips returns exactly the scheduled trips on a route with the
\* given endpoints that depart within the given calendar day, so that a trip
\* is returned for one calendar date only, each with the count of available
\* seats read while the search ran.
C30_SearchReturnsTripsOfTheDay ==
  /\ \A p \in Procs :
       Searched(p)
       => /\ response[p].status = 200
          /\ { r.id : r \in response[p].trips }
               = TripsOfTheDay(local[p].params[1], local[p].params[2],
                               local[p].params[3])
          /\ \A r \in response[p].trips :
               /\ r.availableSeats <= Trips[r.id].capacity
               /\ r.availableSeats >= availableSeats(r.id)
  /\ \A p, q \in Procs :
       Searched(p) /\ Searched(q)
       => \A r \in response[p].trips, x \in response[q].trips :
            r.id = x.id => local[p].params[3] = local[q].params[3]

\* the ids of the bookings in table bookings
PersistedIds == { bookings[i].id : i \in DOMAIN bookings }

\* C31: the set of persisted bookings never shrinks: every step keeps every
\* stored booking, under its id, with its owner, trip and reference; a
\* request to cancel changes at most the status.
C31_BookingsNeverShrink ==
  [][ /\ PersistedIds \subseteq { bookings'[i].id : i \in DOMAIN bookings' }
      /\ Len(bookings') >= Len(bookings)
      /\ \A i \in DOMAIN bookings :
           /\ bookings'[i].userId = bookings[i].userId
           /\ bookings'[i].tripId = bookings[i].tripId
           /\ bookings'[i].bookingReference = bookings[i].bookingReference ]_vars

\* booking 1 was paid by one request and named by a request to cancel, and
\* it is still stored
C31_Witness ==
  \E p, q \in Procs :
    /\ Done(p, "confirm") /\ Succeeded(p) /\ local[p].bookingId = 1
    /\ Done(q, "cancel") /\ local[q].bookingId = 1
    /\ 1 \in PersistedIds
    /\ bookings[1].paymentGatewayId # NULL

\* the seats of the trips that a pending or confirmed booking holds
HeldSeats ==
  { <<bookedSeats[i].tripId, bookedSeats[i].seatNumber>> :
      i \in { j \in DOMAIN bookedSeats :
                ActiveHolders(bookedSeats[j].tripId, bookedSeats[j].seatNumber) # {} } }

\* C32: no step of createBooking, confirmPayment or a read removes or alters
\* an existing seat commitment, and a seat that is occupied stays occupied
\* (the code has no cancelBooking or refundBooking that would release it).
C32_SeatCommitmentsStay ==
  [][ /\ \A i \in DOMAIN bookedSeats :
           i \in DOMAIN bookedSeats' /\ bookedSeats'[i] = bookedSeats[i]
      /\ HeldSeats \subseteq HeldSeats' ]_vars

\* the stored seat outlived a payment confirmation of its booking and a
\* createBooking that added a seat
C32_Witness ==
  \E p, q \in Procs :
    /\ Done(p, "confirm") /\ Succeeded(p) /\ local[p].bookingId = 1
    /\ Done(q, "booking") /\ Succeeded(q)
    /\ Len(bookedSeats) >= 2
    /\ bookedSeats[1] = SeedSeat
    /\ <<"t2", "A1">> \in HeldSeats

\* C33: a booking is confirmed with a payment intent only when the intent's
\* metadata names that booking and its owner; a succeeded intent created for
\* another booking or user is rejected and leaves the booking unchanged.
C33_ConfirmChecksIntentMetadata ==
  /\ \A i \in DOMAIN bookings :
       bookings[i].paymentGatewayId \in IntentIds
       => /\ StripeIntents[bookings[i].paymentGatewayId].bookingId = i
          /\ StripeIntents[bookings[i].paymentGatewayId].userId = bookings[i].userId
  /\ \A p \in Procs :
       /\ Done(p, "confirm")
       /\ local[p].paymentIntentId \in IntentIds
       /\ \/ StripeIntents[local[p].paymentIntentId].bookingId # local[p].bookingId
          \/ StripeIntents[local[p].paymentIntentId].userId # caller[p]
       => response[p].status # 200

\* request p is a payment confirmation whose intent Stripe holds with a
\* status other than succeeded, and this step is a step of p
StepOfFailedPayment(p) ==
  /\ kind'[p] = "confirm"
  /\ pc'[p] # pc[p]
  /\ local'[p].paymentIntentId \in IntentIds
  /\ StripeIntents[local'[p].paymentIntentId].status # "succeeded"

BookingBy(p) == bookings[PersistedBy(p)]

\* C35: the owner of every booking created through POST /api/bookings is
\* the authenticated caller; the userId, status and bookingReference of the
\* request body do not determine what is persisted: the reference is the
\* generated one, and the status is the same whatever the body names.
C35_OwnerIsCaller ==
  /\ \A p \in Procs :
       PersistedBy(p) # 0
       => /\ BookingBy(p).userId = caller[p]
          /\ BookingBy(p).bookingReference = local[p].bookingReference
          /\ BookingBy(p).bookingReference \in GeneratedRefs
  /\ \A p, q \in Procs :
       PersistedBy(p) # 0 /\ PersistedBy(q) # 0
       => BookingBy(p).status = BookingBy(q).status

\* two bookings were created from documents naming different statuses, one
\* of them naming another user than its caller and the reference of the
\* stored booking
C35_Witness ==
  \E p, q \in Procs :
    /\ Done(p, "booking") /\ Succeeded(p) /\ PersistedBy(p) # 0
    /\ Done(q, "booking") /\ Succeeded(q) /\ PersistedBy(q) # 0
    /\ body[p].status # body[q].status
    /\ body[p].userId # caller[p]
    /\ body[p].bookingReference = SeedBooking.bookingReference
    /\ BookingBy(p).userId = caller[p]

\* C36: in every reachable state, every seat commitment belongs to a stored
\* booking and its tripId is the tripId of that booking.
C36_SeatTripIsBookingTrip ==
  \A i \in DOMAIN bookedSeats :
    /\ bookedSeats[i].bookingId \in DOMAIN bookings
    /\ bookedSeats[i].tripId = bookings[bookedSeats[i].bookingId].tripId

\* seats of bookings of two trips are stored, the later booking paid
C36_Witness ==
  /\ Len(bookedSeats) >= 2
  /\ bookedSeats[1].tripId # bookedSeats[2].tripId
  /\ bookedSeats[2].bookingId = 2
  /\ bookings[2].paymentGatewayId # NULL

\* this step is the select of request p's getUserBookings answering
ListStep(p) ==
  /\ kind[p] = "list" /\ pc[p] = "selectUserBookings"
  /\ pc'[p] = "done" /\ response'[p].status = 200

\* the ids of the bookings user u owns
OwnedBy(u) == { i \in DOMAIN bookings : bookings[i].userId = u }

\* C37: getUserBookings(u) returns each booking of u once and no booking of
\* another user, each with exactly the seat commitments the booking has when
\* the select runs (none for a booking without seats), newest first.
C37_UserBookingsComplete ==
  [][ \A p \in Procs :
        ListStep(p)
        => LET R == response'[p].userBookings
           IN /\ { R[k].booking.id : k \in DOMAIN R } = OwnedBy(caller[p])
              /\ Len(R) = Cardinality(OwnedBy(caller[p]))
              /\ \A k \in DOMAIN R :
                   /\ R[k].booking = bookings[R[k].booking.id]
                   /\ Len(R[k].bookedSeats) = Len(SeatsOfBooking(R[k].booking.id))
                   /\ Range(R[k].bookedSeats) = Range(SeatsOfBooking(R[k].booking.id))
              /\ \A k, l \in DOMAIN R :
                   k < l => R[k].booking.id > R[l].booking.id ]_vars

\* u1 was sent its two bookings, the newer one first and with its two seats,
\* the stored one second with its one seat
C37_Witness ==
  \E p \in Procs :
    /\ Done(p, "list") /\ caller[p] = "u1"
    /\ Len(response[p].userBookings) = 2
    /\ Len(response[p].userBookings[1].bookedSeats) = 2
    /\ response[p].userBookings[2].booking = SeedBooking
    /\ response[p].userBookings[2].bookedSeats = <<SeedSeat>>

\* the total and the final amount the booking summary of the component shows
SummaryTotal ==
  (Trips[client.trip].price + serviceFee) * Len(client.selectedSeats)

SummaryFinal == SummaryTotal - client.discount

====
